---- MODULE Spec2Model ----
(***************************************************************************)
(* Verification model of the Ztockly scalping engine.                      *)
(*                                                                         *)
(*   signals.py     compute_scalp_signal, PRESETS, SignalResult            *)
(*   indicators.py  vwap, rolling_swing_lows / rolling_swing_highs,        *)
(*                  find_order_block, in_zone                              *)
(*   app.py         can_alert, add_in_app_alert, the alert capture loop    *)
(*                                                                         *)
(* Conventions.                                                            *)
(*   - Prices, ATR and volumes are integers in ticks of 0.01, so the       *)
(*     literal 0.01 of the code is 1.  The ATR values drawn are multiples  *)
(*     of 20 ticks, so 0.8*atr, 0.25*atr and 1.5*atr are exact integers.   *)
(*     compute_scalp_signal is modelled in this exact arithmetic; vwap,    *)
(*     which is float arithmetic only, is modelled with its rounding.      *)
(*   - vol_multiplier is held in hundredths (1.15 -> 115).                 *)
(*   - An Optional[float] is a sequence of length at most one: None is     *)
(*     <<>> and the value v is <<v>>.  A non-finite float (NaN) read from  *)
(*     a series is <<>> as well.                                           *)
(*   - compute_scalp_signal reads the last rows of the derived series      *)
(*     (vwap, atr14, ema20, ema50, the re-indexed oscillators).  Those     *)
(*     last-row values are the inputs of the model of the function.        *)
(***************************************************************************)
EXTENDS Integers, Sequences, FiniteSets

VARIABLES
    inp,      \* arguments and last-row series values of the current call
    pc,       \* "ready": call pending; "done": the call has returned
    res,      \* the SignalResult returned (meaningful when pc = "done")
    loc,      \* the locals of the call at its return (scores, reasons)
    presets,  \* signals.PRESETS, a module-level mutable dict
    caller,   \* columns of the caller's ohlcv frame
    hist,     \* sequence of <<input, result>> of the calls made before
    sw,       \* state of rolling_swing_lows / rolling_swing_highs
    ob,       \* state of find_order_block
    vw,       \* state of vwap
    app       \* app.py: st.session_state and the widgets of the page

vars == <<inp, pc, res, loc, presets, caller, hist, sw, ob, vw, app>>

---------------------------------------------------------------------------
(* Optional values and numeric helpers                                     *)

None == <<>>
Some(v) == <<v>>
NaN == <<>>
IsFinite(x) == x # NaN
Val(x) == x[1]

Max2(a, b) == IF a >= b THEN a ELSE b
Min2(a, b) == IF a <= b THEN a ELSE b

---------------------------------------------------------------------------
(* signals.py: PRESETS                                                     *)

PRESETS ==
    [m \in {"Fast scalp", "Cleaner signals"} |->
        IF m = "Fast scalp"
        THEN [min_actionable_score |-> 70, vol_multiplier |-> 115,
              require_volume |-> 0, require_macd_turn |-> 1,
              require_vwap_event |-> 1, require_rsi_event |-> 1]
        ELSE [min_actionable_score |-> 80, vol_multiplier |-> 135,
              require_volume |-> 1, require_macd_turn |-> 1,
              require_vwap_event |-> 1, require_rsi_event |-> 1]]

\* cfg = PRESETS.get(mode, PRESETS["Cleaner signals"])
Cfg(table, mode) ==
    IF mode \in DOMAIN table THEN table[mode] ELSE table["Cleaner signals"]

MIN_BARS == 60

Modes == {"Fast scalp", "Cleaner signals", "Unknown"}
Sessions == {"OPENING", "MIDDAY", "POWER", "OFF"}

---------------------------------------------------------------------------
(* signals.py: compute_scalp_signal, reading of the last rows              *)
(*                                                                         *)
(* An input i is a record [g, b, p]:                                       *)
(*   i.g  the arguments: nbars = len(ohlcv), mode, pro_mode, allow_*, the  *)
(*        label classify_session gives the last timestamp, close (last     *)
(*        close);                                                          *)
(*   i.b  the rows read by the basic events: d0,d1,d3,d5 = close - vwap at *)
(*        shift 0,1,3,5; rsi_prev, rsi5 = rsi_fast at shift 1, 0; rsi14;   *)
(*        macd = macd_hist at shift 2,1,0; vol_last, vol_med (rolling      *)
(*        median, NaN when fewer than 10 samples); low_gap = last low      *)
(*        minus the minimum of the last 12 lows, high_gap likewise;        *)
(*   i.p  the rows read by the pro diagnostics and the levels: ema20,      *)
(*        ema50, last_low, last_high, swing_low / swing_high (the last     *)
(*        flagged swing, None when no bar is flagged), low30_gap /         *)
(*        high30_gap (12-bar extreme minus/plus these is the 30-bar        *)
(*        extreme), atr14, bull_fvg / bear_fvg, ob_bull / ob_bear (zones   *)
(*        from detect_fvg and find_order_block, None when absent).         *)

last_price(i) == i.g.close

\* if len(ohlcv) < 60: with the comparison off by one
InsufficientOffByOne(i) == i.g.nbars < MIN_BARS - 1

\* if len(ohlcv) < 60
Insufficient(i) == i.g.nbars < MIN_BARS

\* allowed, with the midday session tested against allow_opening
allowedWrongFlag(i) ==
    \/ (i.g.session = "OPENING" /\ i.g.allow_opening)
    \/ (i.g.session = "MIDDAY" /\ i.g.allow_opening)
    \/ (i.g.session = "POWER" /\ i.g.allow_power)

\* allowed = (session == "OPENING" and allow_opening) or ...
allowed(i) ==
    \/ (i.g.session = "OPENING" /\ i.g.allow_opening)
    \/ (i.g.session = "MIDDAY" /\ i.g.allow_midday)
    \/ (i.g.session = "POWER" /\ i.g.allow_power)

\* BASIC events
was_below_vwap(i) == i.b.d3 < 0 \/ i.b.d5 < 0
reclaim_vwap(i) == i.b.d0 > 0 /\ i.b.d1 <= 0
was_above_vwap(i) == i.b.d3 > 0 \/ i.b.d5 > 0
reject_vwap(i) == i.b.d0 < 0 /\ i.b.d1 >= 0

rsi_snap(i) ==
    \/ (i.b.rsi5 >= 30 /\ i.b.rsi_prev < 30)
    \/ (i.b.rsi5 >= 25 /\ i.b.rsi_prev < 25)
rsi_downshift(i) ==
    \/ (i.b.rsi5 <= 70 /\ i.b.rsi_prev > 70)
    \/ (i.b.rsi5 <= 75 /\ i.b.rsi_prev > 75)

macd_turn_up(i) == i.b.macd[3] > i.b.macd[2] /\ i.b.macd[2] > i.b.macd[1]
macd_turn_down(i) == i.b.macd[3] < i.b.macd[2] /\ i.b.macd[2] < i.b.macd[1]

\* vol_ok = (vol[-1] >= vol_multiplier * vol_med) if isfinite(vol_med) else False
vol_ok(i, cfg) ==
    /\ IsFinite(i.b.vol_med)
    /\ 100 * i.b.vol_last >= cfg.vol_multiplier * Val(i.b.vol_med)

\* df["low"].tail(12).iloc[-1] > df["low"].tail(12).min()
higher_low(i) == i.b.low_gap > 0
lower_high(i) == i.b.high_gap > 0

\* Swings for stops + liquidity reference
low12(i) == i.p.last_low - i.b.low_gap
high12(i) == i.p.last_high + i.b.high_gap
recent_swing_low(i) ==
    IF i.p.swing_low # None THEN Val(i.p.swing_low) ELSE low12(i)
recent_swing_high(i) ==
    IF i.p.swing_high # None THEN Val(i.p.swing_high) ELSE high12(i)

atr_last(i) == IF IsFinite(i.p.atr14) THEN Val(i.p.atr14) ELSE 0
\* buffer = 0.25 * atr_last if atr_last else 0.0
buffer(i) == IF atr_last(i) # 0 THEN atr_last(i) \div 4 ELSE 0

\* Pro diagnostics
trend_long_ok(i) == i.g.close >= i.p.ema20 /\ i.p.ema20 >= i.p.ema50
trend_short_ok(i) == i.g.close <= i.p.ema20 /\ i.p.ema20 <= i.p.ema50

prior_swing_low(i) ==
    IF i.p.swing_low # None THEN Val(i.p.swing_low)
    ELSE low12(i) - i.p.low30_gap
prior_swing_high(i) ==
    IF i.p.swing_high # None THEN Val(i.p.swing_high)
    ELSE high12(i) + i.p.high30_gap
bull_sweep(i) ==
    i.p.last_low < prior_swing_low(i) /\ i.g.close > prior_swing_low(i)
bear_sweep(i) ==
    i.p.last_high > prior_swing_high(i) /\ i.g.close < prior_swing_high(i)

\* indicators.py: in_zone
in_zone(price, zone_low, zone_high, buf) ==
    LET lo == zone_low - buf
        hi == zone_high + buf
    IN  price >= lo /\ price <= hi

bull_ob_retest(i) ==
    /\ i.p.ob_bull # None
    /\ in_zone(last_price(i), i.p.ob_bull[1], i.p.ob_bull[2], buffer(i))
bear_ob_retest(i) ==
    /\ i.p.ob_bear # None
    /\ in_zone(last_price(i), i.p.ob_bear[1], i.p.ob_bear[2], buffer(i))

last_range(i) == i.p.last_high - i.p.last_low
\* displacement = bool(atr_last and last_range >= 1.5 * atr_last)
displacement(i) == atr_last(i) # 0 /\ 2 * last_range(i) >= 3 * atr_last(i)

\* extras: the diagnostics that are true / present (numeric entries left out)
extras(i) ==
    {k \in {"trend_long_ok", "trend_short_ok", "bull_liquidity_sweep",
            "bear_liquidity_sweep", "bull_fvg", "bear_fvg", "bull_ob",
            "bear_ob", "bull_ob_retest", "bear_ob_retest", "displacement"} :
        \/ (k = "trend_long_ok" /\ trend_long_ok(i))
        \/ (k = "trend_short_ok" /\ trend_short_ok(i))
        \/ (k = "bull_liquidity_sweep" /\ bull_sweep(i))
        \/ (k = "bear_liquidity_sweep" /\ bear_sweep(i))
        \/ (k = "bull_fvg" /\ i.p.bull_fvg # None)
        \/ (k = "bear_fvg" /\ i.p.bear_fvg # None)
        \/ (k = "bull_ob" /\ i.p.ob_bull # None)
        \/ (k = "bear_ob" /\ i.p.ob_bear # None)
        \/ (k = "bull_ob_retest" /\ bull_ob_retest(i))
        \/ (k = "bear_ob_retest" /\ bear_ob_retest(i))
        \/ (k = "displacement" /\ displacement(i))}

---------------------------------------------------------------------------
(* signals.py: scoring                                                     *)

vwap_long(i) == was_below_vwap(i) /\ reclaim_vwap(i)
vwap_short(i) == was_above_vwap(i) /\ reject_vwap(i)

\* one "if cond: points += n; reasons.append(text)" statement
Add(acc, cond, n, text) ==
    IF cond THEN [pts |-> acc.pts + n, why |-> Append(acc.why, text)]
    ELSE acc
\* "if displacement: long_points += 5; short_points += 5" appends no reason
AddPts(acc, cond, n) ==
    IF cond THEN [acc EXCEPT !.pts = @ + n] ELSE acc
\* the penalty without its floor
PenaliseNoFloor(acc, cond) ==
    IF cond THEN [acc EXCEPT !.pts = @ - 15] ELSE acc
\* long_points = max(0, long_points - 15)
Penalise(acc, cond) ==
    IF cond THEN [acc EXCEPT !.pts = Max2(0, @ - 15)] ELSE acc

Zero == [pts |-> 0, why |-> <<>>]

LongBasic(i, cfg) ==
    LET a1 == Add(Zero, vwap_long(i), 35, "VWAP reclaim")
        a2 == Add(a1, rsi_snap(i) /\ i.b.rsi14 < 60, 20,
                  "RSI-5 snapback (RSI-14 ok)")
        a3 == Add(a2, macd_turn_up(i), 20, "MACD hist turning up")
        a4 == Add(a3, vol_ok(i, cfg), 15, "Volume confirmation")
    IN  Add(a4, higher_low(i), 10, "Higher-low micro structure")

ShortBasic(i, cfg) ==
    LET a1 == Add(Zero, vwap_short(i), 35, "VWAP rejection")
        a2 == Add(a1, rsi_downshift(i) /\ i.b.rsi14 > 40, 20,
                  "RSI-5 downshift (RSI-14 ok)")
        a3 == Add(a2, macd_turn_down(i), 20, "MACD hist turning down")
        a4 == Add(a3, vol_ok(i, cfg), 15, "Volume confirmation")
    IN  Add(a4, lower_high(i), 10, "Lower-high micro structure")

\* the "if pro_mode:" block, long side
LongPro(i, acc) ==
    LET a1 == Add(acc, bull_sweep(i), 20, "Liquidity sweep (low)")
        a2 == Add(a1, bull_ob_retest(i), 15, "Bullish order block retest")
        a3 == Add(a2, i.p.bull_fvg # None, 10, "Bullish FVG present")
        a4 == AddPts(a3, displacement(i), 5)
    IN  Penalise(a4, ~trend_long_ok(i) /\ ~vwap_long(i))

LongScore(i, cfg) ==
    IF i.g.pro_mode THEN LongPro(i, LongBasic(i, cfg)) ELSE LongBasic(i, cfg)

\* the "if pro_mode:" block, short side
ShortPro(i, acc) ==
    LET a1 == Add(acc, bear_sweep(i), 20, "Liquidity sweep (high)")
        a2 == Add(a1, bear_ob_retest(i), 15, "Bearish order block retest")
        a3 == Add(a2, i.p.bear_fvg # None, 10, "Bearish FVG present")
        a4 == AddPts(a3, displacement(i), 5)
    IN  Penalise(a4, ~trend_short_ok(i) /\ ~vwap_short(i))

ShortScore(i, cfg) ==
    IF i.g.pro_mode THEN ShortPro(i, ShortBasic(i, cfg)) ELSE ShortBasic(i, cfg)

---------------------------------------------------------------------------
(* signals.py: requirements, decision and levels                           *)

\* Requirements, with the volume requirement left out
RequirementFailureNoVolume(i, cfg) ==
    IF cfg.require_vwap_event = 1 /\ ~(vwap_long(i) \/ vwap_short(i))
    THEN Some("No VWAP reclaim/rejection event")
    ELSE IF cfg.require_rsi_event = 1 /\ ~(rsi_snap(i) \/ rsi_downshift(i))
    THEN Some("No RSI-5 snap/downshift event")
    ELSE IF cfg.require_macd_turn = 1 /\ ~(macd_turn_up(i) \/ macd_turn_down(i))
    THEN Some("No MACD histogram turn event")
    ELSE None

\* Requirements: the reason of the first failing one, None when all pass
RequirementFailure(i, cfg) ==
    IF cfg.require_vwap_event = 1 /\ ~(vwap_long(i) \/ vwap_short(i))
    THEN Some("No VWAP reclaim/rejection event")
    ELSE IF cfg.require_rsi_event = 1 /\ ~(rsi_snap(i) \/ rsi_downshift(i))
    THEN Some("No RSI-5 snap/downshift event")
    ELSE IF cfg.require_macd_turn = 1 /\ ~(macd_turn_up(i) \/ macd_turn_down(i))
    THEN Some("No MACD histogram turn event")
    ELSE IF cfg.require_volume = 1 /\ ~vol_ok(i, cfg)
    THEN Some("No volume confirmation")
    ELSE None

\* the trigger requirement applied whatever pro_mode is
ProTriggerMissingAnyMode(i) ==
    ~(bull_sweep(i) \/ bear_sweep(i) \/ bull_ob_retest(i) \/ bear_ob_retest(i))

\* if pro_mode: if not (bull_sweep or bear_sweep or bull_ob_retest or bear_ob_retest)
ProTriggerMissing(i) ==
    /\ i.g.pro_mode
    /\ ~(bull_sweep(i) \/ bear_sweep(i) \/ bull_ob_retest(i) \/ bear_ob_retest(i))

\* the long side winning a tie
LongWinsTie(lp, sp, min_score) == lp >= min_score /\ lp >= sp

LongWins(lp, sp, min_score) == lp >= min_score /\ lp > sp
ShortWins(lp, sp, min_score) == sp >= min_score /\ sp > lp

SignalResult(bias, score, reason, entry, stop, t1, t2, lastp, session, ex) ==
    [bias |-> bias, setup_score |-> score, reason |-> reason,
     entry |-> entry, stop |-> stop, target_1r |-> t1, target_2r |-> t2,
     last_price |-> lastp, session |-> session, extras |-> ex]

Neutral(i, score, reason) ==
    SignalResult("NEUTRAL", score, reason, None, None, None, None,
                 Some(last_price(i)), i.g.session, extras(i))

\* stop = min(recent_swing_low, last_price - max(atr_last, 0.0) * 0.8)
LongStop(i) ==
    Min2(recent_swing_low(i), last_price(i) - (Max2(atr_last(i), 0) * 8) \div 10)
\* the SHORT stop from the swing high alone
ShortStopSwingOnly(i) == recent_swing_high(i)

ShortStop(i) ==
    Max2(recent_swing_high(i), last_price(i) + (Max2(atr_last(i), 0) * 8) \div 10)

First6(seq) == SubSeq(seq, 1, Min2(6, Len(seq)))

\* the LONG levels without the 0.01 floor on the risk
LongResultNoFloor(i, L) ==
    LET entry == last_price(i)
        stop == LongStop(i)
        risk == entry - stop
    IN  SignalResult("LONG", Min2(100, L.pts), First6(L.why), Some(entry),
                     Some(stop), Some(entry + risk), Some(entry + 2 * risk),
                     Some(last_price(i)), i.g.session, extras(i))

LongResult(i, L) ==
    LET entry == last_price(i)
        stop == LongStop(i)
        risk == Max2(entry - stop, 1)
    IN  SignalResult("LONG", Min2(100, L.pts), First6(L.why), Some(entry),
                     Some(stop), Some(entry + risk), Some(entry + 2 * risk),
                     Some(last_price(i)), i.g.session, extras(i))

ShortResult(i, S) ==
    LET entry == last_price(i)
        stop == ShortStop(i)
        risk == Max2(stop - entry, 1)
    IN  SignalResult("SHORT", Min2(100, S.pts), First6(S.why), Some(entry),
                     Some(stop), Some(entry - risk), Some(entry - 2 * risk),
                     Some(last_price(i)), i.g.session, extras(i))

\* the locals of a call that returned before the scoring
NoLocals == [long_points |-> 0, short_points |-> 0, scored |-> FALSE]
Locals(L, S) == [long_points |-> L.pts, short_points |-> S.pts, scored |-> TRUE]

\* How far a call gets: past the sufficiency and session gates, past the
\* hard requirements, past the pro-mode trigger requirement
PastGates(i) == ~Insufficient(i) /\ allowed(i)
PastRequirements(i, cfg) == PastGates(i) /\ RequirementFailure(i, cfg) = None
PastProTrigger(i, cfg) == PastRequirements(i, cfg) /\ ~ProTriggerMissing(i)

---------------------------------------------------------------------------
(* Inputs                                                                  *)

ExtraBars == 1

D == {-1, 0, 1}
RsiPairs == {<<24, 25>>, <<29, 30>>, <<29, 29>>, <<71, 70>>, <<76, 75>>}
VwapTrail == {<<0, 0>>, <<-1, 0>>, <<0, -1>>, <<1, 0>>, <<0, 1>>}
VolRows == {<<114, NaN>>, <<114, Some(100)>>, <<115, Some(100)>>,
            <<135, Some(100)>>}
EmaRows == {<<1000, 1000>>, <<999, 999>>, <<1001, 1001>>, <<999, 1001>>,
            <<1001, 999>>}
MacdRows == {<<0, 1, 2>>, <<2, 1, 0>>, <<0, 1, 1>>}

GateAll ==
    [nbars: {0} \cup ((MIN_BARS - 1) .. (MIN_BARS + ExtraBars)), mode: Modes,
     pro_mode: BOOLEAN, allow_opening: BOOLEAN, allow_midday: BOOLEAN,
     allow_power: BOOLEAN, session: Sessions, close: {1000, 1010}]

\* the defaults of the signature, on an allowed session
GateFew ==
    [nbars: {MIN_BARS}, mode: {"Fast scalp", "Cleaner signals"},
     pro_mode: BOOLEAN, allow_opening: {TRUE}, allow_midday: {FALSE},
     allow_power: {TRUE}, session: {"OPENING"}, close: {1000}]

BasicAll ==
    {[d5 |-> t[1], d3 |-> t[2], d1 |-> d1, d0 |-> d0, rsi_prev |-> r[1],
      rsi5 |-> r[2], rsi14 |-> r14, macd |-> m, vol_last |-> v[1],
      vol_med |-> v[2], low_gap |-> lg, high_gap |-> hg] :
        t \in VwapTrail, d1 \in D, d0 \in D, r \in RsiPairs,
        r14 \in {40, 50, 60}, m \in MacdRows, v \in VolRows,
        lg \in {0, 10}, hg \in {0, 10}}

LongSetup ==
    [d5 |-> -1, d3 |-> -1, d1 |-> 0, d0 |-> 1, rsi_prev |-> 29, rsi5 |-> 30,
     rsi14 |-> 50, macd |-> <<0, 1, 2>>, vol_last |-> 135,
     vol_med |-> Some(100), low_gap |-> 10, high_gap |-> 0]
ShortSetup ==
    [d5 |-> 1, d3 |-> 1, d1 |-> 0, d0 |-> -1, rsi_prev |-> 71, rsi5 |-> 70,
     rsi14 |-> 50, macd |-> <<2, 1, 0>>, vol_last |-> 135,
     vol_med |-> Some(100), low_gap |-> 0, high_gap |-> 10]
Quiet ==
    [d5 |-> 0, d3 |-> 0, d1 |-> 0, d0 |-> 0, rsi_prev |-> 50, rsi5 |-> 50,
     rsi14 |-> 50, macd |-> <<0, 1, 1>>, vol_last |-> 114, vol_med |-> NaN,
     low_gap |-> 0, high_gap |-> 0]
\* the long events without any VWAP event
LongNoVwap == [LongSetup EXCEPT !.d5 = 0, !.d3 = 0, !.d1 = 0, !.d0 = 0]
\* the long events with a VWAP rejection on the last bar
LongButReject == [LongSetup EXCEPT !.d5 = 1, !.d3 = 1, !.d1 = 0, !.d0 = -1]

BasicFew == {LongSetup, ShortSetup, Quiet, LongNoVwap, LongButReject}

ProAll ==
    {[ema20 |-> e[1], ema50 |-> e[2], last_low |-> ll, last_high |-> lh,
      swing_low |-> sl, swing_high |-> sh, low30_gap |-> g30,
      high30_gap |-> g30, atr14 |-> a, bull_fvg |-> bf, bear_fvg |-> sf,
      ob_bull |-> bo, ob_bear |-> so] :
        e \in EmaRows, ll \in {970, 1000}, lh \in {1010, 1040},
        sl \in {None, Some(990), Some(1005)},
        sh \in {None, Some(1020), Some(995)}, g30 \in {0, 10},
        a \in {NaN, Some(0), Some(20)},
        bf \in {None, <<980, 985>>}, sf \in {None, <<1015, 1020>>},
        bo \in {None, <<1003, 1008>>}, so \in {None, <<992, 997>>}}

ProQuiet ==
    [ema20 |-> 1000, ema50 |-> 1000, last_low |-> 1000, last_high |-> 1010,
     swing_low |-> Some(990), swing_high |-> Some(1020), low30_gap |-> 0,
     high30_gap |-> 0, atr14 |-> Some(20), bull_fvg |-> None,
     bear_fvg |-> None, ob_bull |-> None, ob_bear |-> None]
ProBull ==
    [ProQuiet EXCEPT !.ema20 = 999, !.ema50 = 999, !.last_low = 970,
                     !.bull_fvg = <<980, 985>>, !.ob_bull = <<1003, 1008>>]
ProBear ==
    [ProQuiet EXCEPT !.ema20 = 1001, !.ema50 = 1001, !.last_high = 1040,
                     !.bear_fvg = <<1015, 1020>>, !.ob_bear = <<992, 997>>]

ProFew == {ProQuiet, ProBull, ProBear}

Inputs ==
    [g: GateAll, b: BasicFew, p: ProFew]
        \cup [g: GateFew, b: BasicAll, p: {ProQuiet, ProBull}]
        \cup [g: GateFew, b: BasicFew, p: ProAll]

OhlcvColumns == {"open", "high", "low", "close", "volume"}

Pending == SignalResult("", 0, <<>>, None, None, None, None, None, "", {})

SwIdle == [pc |-> "idle"]
ObIdle == [pc |-> "idle"]
VwIdle == [pc |-> "idle"]
AppIdle == [pc |-> "idle"]

---------------------------------------------------------------------------
(* compute_scalp_signal, one action per return statement                   *)

DerivedColumns == {"vwap", "atr14", "ema20", "ema50"}

\* the preset entry cfg refers to
CfgKey(table, mode) == IF mode \in DOMAIN table THEN mode ELSE "Cleaner signals"

\* a call that works on the caller's objects: the derived columns are written
\* to ohlcv itself, and pro mode tightens cfg (the PRESETS entry) in place
ReturnsInPlace(r, l) ==
    /\ pc' = "done"
    /\ res' = r
    /\ loc' = l
    /\ caller' = caller \cup DerivedColumns
    /\ presets' =
        IF inp.g.pro_mode
        THEN [presets EXCEPT ![CfgKey(presets, inp.g.mode)].min_actionable_score =
                                 Min2(100, @ + 10)]
        ELSE presets
    /\ UNCHANGED <<inp, hist, sw, ob, vw, app>>

\* df = ohlcv.copy().tail(lookback_bars).copy(); the derived columns are
\* added to the copy, the oscillators are rebound to re-indexed copies, cfg
\* is only read
Returns(r, l) ==
    /\ pc' = "done"
    /\ res' = r
    /\ loc' = l
    /\ UNCHANGED <<inp, presets, caller, hist, sw, ob, vw, app>>

ScoredLocals(i, cfg) == Locals(LongScore(i, cfg), ShortScore(i, cfg))

ReturnNotEnoughData ==
    /\ pc = "ready"
    /\ Insufficient(inp)
    /\ Returns(SignalResult("NEUTRAL", 0, <<"Not enough data">>, None, None,
                            None, None, None, "OFF", {}), NoLocals)

ReturnFiltered ==
    /\ pc = "ready"
    /\ ~Insufficient(inp)
    /\ ~allowed(inp)
    /\ Returns(SignalResult("NEUTRAL", 0,
                            <<"Filtered by time-of-day", inp.g.session>>,
                            None, None, None, None, Some(last_price(inp)),
                            inp.g.session, {}), NoLocals)

ReturnRequirement ==
    /\ pc = "ready"
    /\ PastGates(inp)
    /\ RequirementFailure(inp, Cfg(presets, inp.g.mode)) # None
    /\ LET cfg == Cfg(presets, inp.g.mode)
           l == ScoredLocals(inp, cfg)
       IN  Returns(Neutral(inp, Max2(l.long_points, l.short_points),
                           RequirementFailure(inp, cfg)), l)

ReturnProTrigger ==
    /\ pc = "ready"
    /\ PastRequirements(inp, Cfg(presets, inp.g.mode))
    /\ ProTriggerMissing(inp)
    /\ LET l == ScoredLocals(inp, Cfg(presets, inp.g.mode))
       IN  Returns(Neutral(inp, Max2(l.long_points, l.short_points),
                           <<"Pro mode: no liquidity sweep / OB retest trigger">>), l)

ReturnLong ==
    /\ pc = "ready"
    /\ PastProTrigger(inp, Cfg(presets, inp.g.mode))
    /\ LET cfg == Cfg(presets, inp.g.mode)
           L == LongScore(inp, cfg)
           S == ShortScore(inp, cfg)
       IN  /\ LongWins(L.pts, S.pts, cfg.min_actionable_score)
           /\ Returns(LongResult(inp, L), Locals(L, S))

ReturnShort ==
    /\ pc = "ready"
    /\ PastProTrigger(inp, Cfg(presets, inp.g.mode))
    /\ LET cfg == Cfg(presets, inp.g.mode)
           L == LongScore(inp, cfg)
           S == ShortScore(inp, cfg)
       IN  /\ ~LongWins(L.pts, S.pts, cfg.min_actionable_score)
           /\ ShortWins(L.pts, S.pts, cfg.min_actionable_score)
           /\ Returns(ShortResult(inp, S), Locals(L, S))

ReturnNeutral ==
    /\ pc = "ready"
    /\ PastProTrigger(inp, Cfg(presets, inp.g.mode))
    /\ LET cfg == Cfg(presets, inp.g.mode)
           L == LongScore(inp, cfg)
           S == ShortScore(inp, cfg)
       IN  /\ ~LongWins(L.pts, S.pts, cfg.min_actionable_score)
           /\ ~ShortWins(L.pts, S.pts, cfg.min_actionable_score)
           /\ Returns(Neutral(inp, Max2(L.pts, S.pts),
                              <<"LongScore">> \o L.why \o <<"ShortScore">> \o S.why),
                      Locals(L, S))

Init ==
    /\ inp \in Inputs
    /\ pc = "ready"
    /\ res = Pending
    /\ loc = NoLocals
    /\ presets = PRESETS
    /\ caller = OhlcvColumns
    /\ hist = <<>>
    /\ sw = SwIdle
    /\ ob = ObIdle
    /\ vw = VwIdle
    /\ app = AppIdle

Next ==
    \/ ReturnNotEnoughData
    \/ ReturnFiltered
    \/ ReturnRequirement
    \/ ReturnProTrigger
    \/ ReturnLong
    \/ ReturnShort
    \/ ReturnNeutral

Spec == Init /\ [][Next]_vars

---------------------------------------------------------------------------
(* Repeated calls (app.py: the scan and the detail view call the function   *)
(* again and again in one process)                                         *)

MaxCalls == 2

GateCalls ==
    {g \in GateFew \cup GateAll :
        /\ g.close = 1000
        /\ g.allow_opening /\ ~g.allow_midday /\ g.allow_power
        /\ g.mode \in DOMAIN PRESETS
        /\ \/ (g.nbars = MIN_BARS /\ g.session = "OPENING")
           \/ (g.nbars = MIN_BARS - 1 /\ g.session = "OPENING"
                 /\ g.mode = "Fast scalp" /\ ~g.pro_mode)
           \/ (g.nbars = MIN_BARS /\ g.session = "OFF"
                 /\ g.mode = "Fast scalp" /\ ~g.pro_mode)}

InputsCalls ==
    {i \in [g: GateCalls, b: {LongSetup, ShortSetup, Quiet, LongButReject},
            p: {ProQuiet}] :
        (i.g.nbars < MIN_BARS \/ i.g.session = "OFF") => i.b = LongSetup}

\* the caller keeps the result and calls again with other arguments
NextCall ==
    /\ pc = "done"
    /\ Len(hist) < MaxCalls
    /\ hist' = Append(hist, <<inp, res>>)
    /\ inp' \in InputsCalls
    /\ pc' = "ready"
    /\ res' = Pending
    /\ loc' = NoLocals
    /\ UNCHANGED <<presets, caller, sw, ob, vw, app>>

InitCalls ==
    /\ inp \in InputsCalls
    /\ pc = "ready"
    /\ res = Pending
    /\ loc = NoLocals
    /\ presets = PRESETS
    /\ caller = OhlcvColumns
    /\ hist = <<>>
    /\ sw = SwIdle
    /\ ob = ObIdle
    /\ vw = VwIdle
    /\ app = AppIdle

NextCalls ==
    \/ ReturnNotEnoughData
    \/ ReturnFiltered
    \/ ReturnRequirement
    \/ ReturnProTrigger
    \/ ReturnLong
    \/ ReturnShort
    \/ ReturnNeutral
    \/ NextCall

SpecCalls == InitCalls /\ [][NextCalls]_vars

---------------------------------------------------------------------------
(* indicators.py: rolling_swing_lows / rolling_swing_highs                 *)
(*                                                                         *)
(* sw = [pc, kind, s, left, right, i, flags]: the series s, the loop       *)
(* variable i (0-based, as in the code) and the mask is_low / is_high.     *)
(* Position i of the code is element i + 1 of the TLA+ sequence.           *)

MaxSwingLen == 5
MaxSide == 2
SwingValues == {1, 2, 3}

SeqsUpTo(S, n) == UNION {[1..k -> S] : k \in 0..n}

\* s.iloc[lo : hi], a Python slice with 0 <= lo: clipped at the end of s
Slice(s, lo, hi) == SubSeq(s, lo + 1, Min2(hi, Len(s)))

SeqMin(w) == CHOOSE m \in {w[k] : k \in 1..Len(w)} : \A k \in 1..Len(w) : m <= w[k]
SeqMax(w) == CHOOSE m \in {w[k] : k \in 1..Len(w)} : \A k \in 1..Len(w) : m >= w[k]

\* the loop running to the end of the series
SwingStopAtEnd(n, right) == n

\* for i in range(left, len(s) - right): the exclusive end of the range
SwingStop(n, right) == n - right

SwingStart(kind, s, left, right) ==
    [pc |-> "loop", kind |-> kind, s |-> s, left |-> left, right |-> right,
     i |-> left, flags |-> [k \in 1..Len(s) |-> FALSE]]

\* one iteration of the loop of rolling_swing_lows
SwingLowStep ==
    /\ sw.pc = "loop"
    /\ sw.kind = "low"
    /\ sw.i < SwingStop(Len(sw.s), sw.right)
    /\ LET window == Slice(sw.s, sw.i - sw.left, sw.i + sw.right + 1)
       IN  sw' = [sw EXCEPT !.i = @ + 1,
                            !.flags[sw.i + 1] = (sw.s[sw.i + 1] = SeqMin(window))]
    /\ UNCHANGED <<inp, pc, res, loc, presets, caller, hist, ob, vw, app>>

\* one iteration of the loop of rolling_swing_highs
SwingHighStep ==
    /\ sw.pc = "loop"
    /\ sw.kind = "high"
    /\ sw.i < SwingStop(Len(sw.s), sw.right)
    /\ LET window == Slice(sw.s, sw.i - sw.left, sw.i + sw.right + 1)
       IN  sw' = [sw EXCEPT !.i = @ + 1,
                            !.flags[sw.i + 1] = (sw.s[sw.i + 1] = SeqMax(window))]
    /\ UNCHANGED <<inp, pc, res, loc, presets, caller, hist, ob, vw, app>>

\* the range is exhausted: return is_low / is_high
SwingReturn ==
    /\ sw.pc = "loop"
    /\ ~(sw.i < SwingStop(Len(sw.s), sw.right))
    /\ sw' = [sw EXCEPT !.pc = "done"]
    /\ UNCHANGED <<inp, pc, res, loc, presets, caller, hist, ob, vw, app>>

NoCall == [g |-> [nbars |-> 0]]

InitSwing ==
    /\ sw \in {SwingStart(kind, s, left, right) :
                 kind \in {"low", "high"}, s \in SeqsUpTo(SwingValues, MaxSwingLen),
                 left \in 0..MaxSide, right \in 0..MaxSide}
    /\ inp = NoCall
    /\ pc = "idle"
    /\ res = Pending
    /\ loc = NoLocals
    /\ presets = PRESETS
    /\ caller = OhlcvColumns
    /\ hist = <<>>
    /\ ob = ObIdle
    /\ vw = VwIdle
    /\ app = AppIdle

NextSwing ==
    \/ SwingLowStep
    \/ SwingHighStep
    \/ SwingReturn

SpecSwing == InitSwing /\ [][NextSwing]_vars

---------------------------------------------------------------------------
(* indicators.py: find_order_block                                         *)
(*                                                                         *)
(* ob = [pc, side, lookback, df, atr, win, at, i, result].  df is the      *)
(* caller's frame (a sequence of bars), atr the caller's ATR series on the *)
(* same index; win and at are the function's df and at after tail() and    *)
(* reindex().ffill(); i is the loop variable (0-based, as in the code).    *)
(* An ATR entry is a float [k, v]: k is "num", "nan" or "inf", because     *)
(* ffill() fills a NaN and leaves an infinity alone.                       *)

FNan == [k |-> "nan", v |-> 0]
FInf == [k |-> "inf", v |-> 0]
FNum(x) == [k |-> "num", v |-> x]

MIN_OB_BARS == 10
DEFAULT_LOOKBACK == 30
MaxTail == 5

Bar(o, h, l, c) == [open |-> o, high |-> h, low |-> l, close |-> c]
BigDown == Bar(10, 10, 6, 6)
BigUp == Bar(12, 15, 12, 15)
Flat == Bar(11, 11, 11, 11)
Candles == {BigDown, BigUp, Flat}
AtrValues == {FNan, FInf, FNum(0), FNum(2), FNum(5)}

\* df.tail(k)
TailOf(s, k) == SubSeq(s, Len(s) - Min2(k, Len(s)) + 1, Len(s))

\* Series.ffill(): a NaN takes the last earlier value that is not NaN
RECURSIVE Ffill(_)
Ffill(s) ==
    IF Len(s) <= 1 THEN s
    ELSE LET head == Ffill(SubSeq(s, 1, Len(s) - 1))
             last == s[Len(s)]
         IN  Append(head, IF last.k = "nan" THEN head[Len(head)] ELSE last)

\* a finite ATR of any value passes
AtrUsableAnyFinite(x) == x.k = "num"

\* atr_i = at[i] if np.isfinite(at[i]) else None; "if not atr_i: continue"
AtrUsable(x) == x.k = "num" /\ x.v # 0

NoZone == [zone_low |-> None, zone_high |-> None, ts |-> None]
Zone(a, b, t) == [zone_low |-> Some(Min2(a, b)), zone_high |-> Some(Max2(a, b)), ts |-> Some(t)]

\* range(i + 1, min(i + 4, len(df))), 0-based
Followers(i, n) == (i + 1)..(Min2(i + 4, n) - 1)

BullCandidate(w, i) == w[i + 1].close < w[i + 1].open
BearCandidate(w, i) == w[i + 1].close > w[i + 1].open

\* the move measured from the candidate's high
BullDisplacedFromHigh(w, i, atr_i) ==
    \E j \in Followers(i, Len(w)) :
        /\ w[j + 1].close > w[i + 1].high
        /\ w[j + 1].close - w[i + 1].high > atr_i

BullDisplaced(w, i, atr_i) ==
    \E j \in Followers(i, Len(w)) :
        /\ w[j + 1].close > w[i + 1].high
        /\ w[j + 1].close - w[i + 1].close > atr_i

BearDisplaced(w, i, atr_i) ==
    \E j \in Followers(i, Len(w)) :
        /\ w[j + 1].close < w[i + 1].low
        /\ w[i + 1].close - w[j + 1].close > atr_i

\* idx[i]: the position of window bar i in the caller's frame
Stamp(o, i) == Len(o.df) - Len(o.win) + i

OBStart(side, lookback, df, atr) ==
    [pc |-> "start", side |-> side, lookback |-> lookback, df |-> df, atr |-> atr,
     win |-> <<>>, at |-> <<>>, i |-> 0, result |-> NoZone]

\* if len(df) < 10: return None, None, None
OBTooShort ==
    /\ ob.pc = "start"
    /\ Len(ob.df) < MIN_OB_BARS
    /\ ob' = [ob EXCEPT !.pc = "done", !.result = NoZone]
    /\ UNCHANGED <<inp, pc, res, loc, presets, caller, hist, sw, vw, app>>

\* df = df.tail(lookback).copy(); atr_series.reindex(df.index).ffill()
OBTail ==
    /\ ob.pc = "start"
    /\ ~(Len(ob.df) < MIN_OB_BARS)
    /\ LET w == TailOf(ob.df, ob.lookback)
       IN  ob' = [ob EXCEPT !.pc = "scan",
                            !.win = w,
                            !.at = Ffill(TailOf(ob.atr, ob.lookback)),
                            !.i = Len(w) - 4]
    /\ UNCHANGED <<inp, pc, res, loc, presets, caller, hist, sw, vw, app>>

\* one iteration of the loop of the "bull" branch
OBBullStep ==
    /\ ob.pc = "scan"
    /\ ob.side = "bull"
    /\ ob.i >= 0
    /\ ob' = IF /\ BullCandidate(ob.win, ob.i)
                /\ AtrUsable(ob.at[ob.i + 1])
                /\ BullDisplaced(ob.win, ob.i, ob.at[ob.i + 1].v)
             THEN [ob EXCEPT !.pc = "done",
                             !.result = Zone(ob.win[ob.i + 1].low, ob.win[ob.i + 1].open,
                                             Stamp(ob, ob.i))]
             ELSE [ob EXCEPT !.i = @ - 1]
    /\ UNCHANGED <<inp, pc, res, loc, presets, caller, hist, sw, vw, app>>

\* one iteration of the loop of the other branch
OBBearStep ==
    /\ ob.pc = "scan"
    /\ ob.side # "bull"
    /\ ob.i >= 0
    /\ ob' = IF /\ BearCandidate(ob.win, ob.i)
                /\ AtrUsable(ob.at[ob.i + 1])
                /\ BearDisplaced(ob.win, ob.i, ob.at[ob.i + 1].v)
             THEN [ob EXCEPT !.pc = "done",
                             !.result = Zone(ob.win[ob.i + 1].high, ob.win[ob.i + 1].open,
                                             Stamp(ob, ob.i))]
             ELSE [ob EXCEPT !.i = @ - 1]
    /\ UNCHANGED <<inp, pc, res, loc, presets, caller, hist, sw, vw, app>>

\* the range is exhausted: return None, None, None
OBExhausted ==
    /\ ob.pc = "scan"
    /\ ob.i < 0
    /\ ob' = [ob EXCEPT !.pc = "done", !.result = NoZone]
    /\ UNCHANGED <<inp, pc, res, loc, presets, caller, hist, sw, vw, app>>

\* frames of n bars: flat bars followed by MaxTail drawn bars; the ATR of
\* the flat bars is f, of the first two drawn bars a0 and a1, then 2
Frame(n, tail) == [k \in 1..n |-> IF k <= n - MaxTail THEN Flat ELSE tail[k - (n - MaxTail)]]
AtrSeries(n, f, a0, a1) ==
    [k \in 1..n |-> IF k <= n - MaxTail THEN f
                    ELSE IF k = n - MaxTail + 1 THEN a0
                    ELSE IF k = n - MaxTail + 2 THEN a1
                    ELSE FNum(2)]

InitOB ==
    /\ ob \in {OBStart(side, lookback, Frame(n, tail), AtrSeries(n, f, a0, a1)) :
                 side \in {"bull", "bear"},
                 lookback \in {MaxTail - 1, MaxTail, DEFAULT_LOOKBACK},
                 n \in {MIN_OB_BARS - 1, MIN_OB_BARS},
                 tail \in [1..MaxTail -> Candles],
                 f \in {FNan, FNum(2)}, a0 \in AtrValues, a1 \in AtrValues}
    /\ inp = NoCall
    /\ pc = "idle"
    /\ res = Pending
    /\ loc = NoLocals
    /\ presets = PRESETS
    /\ caller = OhlcvColumns
    /\ hist = <<>>
    /\ sw = SwIdle
    /\ vw = VwIdle
    /\ app = AppIdle

NextOB ==
    \/ OBTooShort
    \/ OBTail
    \/ OBBullStep
    \/ OBBearStep
    \/ OBExhausted

SpecOB == InitOB /\ [][NextOB]_vars

---------------------------------------------------------------------------
(* indicators.py: vwap                                                     *)
(*                                                                         *)
(* The function is float arithmetic only, so here the floats are modelled  *)
(* as they round: binary floating point, round to nearest, ties to even,   *)
(* with PREC significant bits (a double has 53).  The float of value x is  *)
(* the integer x * Unit; every value that occurs is 0 or at least 1, so    *)
(* each float is an integer number of units.                               *)
(* vw = [pc, bars, k, cpv, cv, out]: the frame, the row k reached by the   *)
(* cumulative sums, the running sums and the series built so far.          *)

PREC == 8
Unit == 2 ^ (PREC - 1)

\* the spacing of the floats around the rational num / den units
RECURSIVE Quantum(_, _, _)
Quantum(num, den, q) == IF 2 * q * Unit * den <= num THEN Quantum(num, den, 2 * q) ELSE q

\* the float nearest to num / den units, ties to the even significand
FRound(num, den) ==
    IF num = 0 THEN 0
    ELSE LET q == Quantum(num, den, 1)
             k == num \div (den * q)
             r == num - k * den * q
         IN  IF 2 * r < den * q THEN k * q
             ELSE IF 2 * r > den * q THEN (k + 1) * q
             ELSE IF k % 2 = 1 THEN (k + 1) * q
             ELSE k * q

FAdd(a, b) == FRound(a + b, 1)
FMul(a, b) == FRound(a * b, Unit)
FDiv(a, b) == FRound(a * Unit, b)

\* the sum of the three prices, not divided
TypicalPriceUndivided(bar) == FAdd(FAdd(bar.high, bar.low), bar.close)

\* tp = (df["high"] + df["low"] + df["close"]) / 3.0
TypicalPrice(bar) == FDiv(FAdd(FAdd(bar.high, bar.low), bar.close), 3 * Unit)

\* .replace(0, np.nan) under the division
VwapAt(cpv, cv) == IF cv = 0 THEN NaN ELSE Some(FDiv(cpv, cv))

VwapStart(bars) == [pc |-> "loop", bars |-> bars, k |-> 0, cpv |-> 0, cv |-> 0, out |-> <<>>]

\* row k of pv.cumsum() / df["volume"].cumsum().replace(0, np.nan)
VwapRow ==
    /\ vw.pc = "loop"
    /\ vw.k < Len(vw.bars)
    /\ LET bar == vw.bars[vw.k + 1]
           pv == FMul(TypicalPrice(bar), bar.volume)
           cpv == IF vw.k = 0 THEN pv ELSE FAdd(vw.cpv, pv)
           cv == IF vw.k = 0 THEN bar.volume ELSE FAdd(vw.cv, bar.volume)
       IN  vw' = [vw EXCEPT !.k = @ + 1, !.cpv = cpv, !.cv = cv,
                            !.out = Append(@, VwapAt(cpv, cv))]
    /\ UNCHANGED <<inp, pc, res, loc, presets, caller, hist, sw, ob, app>>

\* the series is complete
VwapReturn ==
    /\ vw.pc = "loop"
    /\ vw.k = Len(vw.bars)
    /\ vw' = [vw EXCEPT !.pc = "done"]
    /\ UNCHANGED <<inp, pc, res, loc, presets, caller, hist, sw, ob, app>>

\* prices in [2, 4), where the floats are 2 units apart; volumes 0..3
MaxVwapBars == 2
PriceSteps == {0, 86, 90, 100}
VwapPrices == {2 * Unit + 2 * o : o \in PriceSteps}
VwapVolumes == {0, Unit, 3 * Unit}
VwapBars ==
    {b \in [high : VwapPrices, low : VwapPrices, close : VwapPrices, volume : VwapVolumes] :
        b.low <= b.close /\ b.close <= b.high}

InitVwap ==
    /\ vw \in {VwapStart(bars) : bars \in SeqsUpTo(VwapBars, MaxVwapBars)}
    /\ inp = NoCall
    /\ pc = "idle"
    /\ res = Pending
    /\ loc = NoLocals
    /\ presets = PRESETS
    /\ caller = OhlcvColumns
    /\ hist = <<>>
    /\ sw = SwIdle
    /\ ob = ObIdle
    /\ app = AppIdle

NextVwap ==
    \/ VwapRow
    \/ VwapReturn

SpecVwap == InitVwap /\ [][NextVwap]_vars

---------------------------------------------------------------------------
(* app.py: in-app alerts                                                   *)
(*                                                                         *)
(* app = [clock, cooldown_minutes, alert_threshold, capture_alerts,        *)
(*        max_alerts_kept, alerts, last_alert_ts, caps, captured, n].      *)
(* clock is time.time() in seconds; alerts and last_alert_ts are the two   *)
(* entries of st.session_state; the sliders and the checkbox are the       *)
(* widgets of the sidebar.  One action is one run of the script with one   *)
(* reading of the clock.  caps, captured and n are bookkeeping: the         *)
(* captures made from scan results since the last Clear (never truncated), *)
(* whether the last run captured anything, and the number of results and   *)
(* test rows handled so far, which bounds a run.                           *)

TickSeconds == 30
MaxClock == 120
MaxCaptures == 4

AppSymbols == {"AAPL", "NVDA", "TEST"}
CooldownChoices == {1, 2}
ThresholdChoices == {80, 90}
KeptChoices == {10, 20}

Result(symbol, bias, score) ==
    [symbol |-> symbol, bias |-> bias, score |-> score, why |-> "signal"]

\* what scan_watchlist may return for the watchlist of the run: a symbol
\* entered twice is scanned twice and comes back twice
ScanOutcomes ==
    {<<>>,
     <<Result("NVDA", "NEUTRAL", 115), Result("AAPL", "LONG", 90)>>,
     <<Result("AAPL", "LONG", 90), Result("NVDA", "SHORT", 85)>>,
     <<Result("AAPL", "LONG", 80), Result("AAPL", "LONG", 80)>>,
     <<Result("TEST", "SHORT", 100), Result("NVDA", "LONG", 70)>>}

\* the list after k clicks on "Capture test alert" at clock 0
FillerChoices == {0, 9}
Filler(k) ==
    [j \in 1..k |-> [symbol |-> "TEST", bias |-> "LONG", score |-> 95,
                     why |-> "Test alert card", ts_unix |-> 0]]

\* the row of the "Capture test alert" button
TestRow == [symbol |-> "TEST", bias |-> "LONG", score |-> 95, why |-> "Test alert card"]

\* can_alert without the cooldown test
can_alert_always(last_alert_ts, symbol, now_ts, cooldown_min) == TRUE

can_alert(last_alert_ts, symbol, now_ts, cooldown_min) ==
    LET last == last_alert_ts[symbol]
    IN  IF last = None THEN TRUE
        ELSE now_ts - Val(last) >= cooldown_min * 60

\* add_in_app_alert: insert(0, alert), then keep the first max_alerts_kept
add_in_app_alert(alerts, row, ts_unix, kept) ==
    LET alert == [symbol |-> row.symbol, bias |-> row.bias, score |-> row.score,
                  why |-> row.why, ts_unix |-> ts_unix]
        all == <<alert>> \o alerts
    IN  SubSeq(all, 1, Min2(kept, Len(all)))

\* df.loc[df["Symbol"] == r.symbol].iloc[0]: the first row of that symbol
RowOf(results, symbol) ==
    results[CHOOSE k \in 1..Len(results) :
                /\ results[k].symbol = symbol
                /\ \A j \in 1..(k - 1) : results[j].symbol # symbol]

\* "for r in results:" from result k on, with the state st the loop carries
RECURSIVE CaptureLoop(_, _, _, _)
CaptureLoop(results, k, now, st) ==
    IF k > Len(results) THEN st
    ELSE LET r == results[k]
             hit == /\ r.bias \in {"LONG", "SHORT"}
                    /\ r.score >= st.alert_threshold
                    /\ can_alert(st.last_alert_ts, r.symbol, now, st.cooldown_minutes)
             row == RowOf(results, r.symbol)
             next == IF hit
                     THEN [st EXCEPT
                             !.alerts = add_in_app_alert(@, row, now, st.max_alerts_kept),
                             !.last_alert_ts[r.symbol] = Some(now),
                             !.caps = Append(@, [symbol |-> r.symbol, now |-> now,
                                                 cooldown |-> st.cooldown_minutes,
                                                 threshold |-> st.alert_threshold,
                                                 bias |-> row.bias, score |-> row.score]),
                             !.captured = TRUE]
                     ELSE st
         IN  CaptureLoop(results, k + 1, now, next)

AppOthers == <<inp, pc, res, loc, presets, caller, hist, sw, ob, vw>>

\* a run that scans (the "Scan Watchlist" button or auto-refresh)
RunScan ==
    /\ \E results \in ScanOutcomes :
        /\ app.n + Len(results) <= MaxCaptures
        /\ app' = IF results # <<>> /\ app.capture_alerts
                  THEN CaptureLoop(results, 1, app.clock,
                                   [app EXCEPT !.captured = FALSE, !.n = @ + Len(results)])
                  ELSE [app EXCEPT !.captured = FALSE, !.n = @ + Len(results)]
    /\ UNCHANGED AppOthers

\* a run for the "Capture test alert" button
CaptureTestAlert ==
    /\ app.n < MaxCaptures
    /\ app' = [app EXCEPT
                 !.alerts = add_in_app_alert(@, TestRow, app.clock, app.max_alerts_kept),
                 !.captured = TRUE, !.n = @ + 1]
    /\ UNCHANGED AppOthers

\* a run for the "Clear alerts" button
ClearAlerts ==
    /\ app' = [app EXCEPT !.alerts = <<>>,
                          !.last_alert_ts = [x \in AppSymbols |-> None],
                          !.caps = <<>>, !.captured = FALSE]
    /\ UNCHANGED AppOthers

\* runs after a change of a sidebar widget
SetCooldown ==
    /\ \E c \in CooldownChoices \ {app.cooldown_minutes} :
        app' = [app EXCEPT !.cooldown_minutes = c, !.captured = FALSE]
    /\ UNCHANGED AppOthers

SetThreshold ==
    /\ \E t \in ThresholdChoices \ {app.alert_threshold} :
        app' = [app EXCEPT !.alert_threshold = t, !.captured = FALSE]
    /\ UNCHANGED AppOthers

SetMaxKept ==
    /\ \E m \in KeptChoices \ {app.max_alerts_kept} :
        app' = [app EXCEPT !.max_alerts_kept = m, !.captured = FALSE]
    /\ UNCHANGED AppOthers

SetCapture ==
    /\ app' = [app EXCEPT !.capture_alerts = ~@, !.captured = FALSE]
    /\ UNCHANGED AppOthers

\* time passes between two runs
Tick ==
    /\ app.clock < MaxClock
    /\ app' = [app EXCEPT !.clock = @ + TickSeconds, !.captured = FALSE]
    /\ UNCHANGED AppOthers

InitApp ==
    /\ app \in {[clock |-> 0, cooldown_minutes |-> 1, alert_threshold |-> 80,
                  capture_alerts |-> TRUE, max_alerts_kept |-> 10, alerts |-> Filler(k),
                  last_alert_ts |-> [x \in AppSymbols |-> None], caps |-> <<>>,
                  captured |-> FALSE, n |-> 0] : k \in FillerChoices}
    /\ inp = NoCall
    /\ pc = "idle"
    /\ res = Pending
    /\ loc = NoLocals
    /\ presets = PRESETS
    /\ caller = OhlcvColumns
    /\ hist = <<>>
    /\ sw = SwIdle
    /\ ob = ObIdle
    /\ vw = VwIdle

NextApp ==
    \/ RunScan
    \/ CaptureTestAlert
    \/ ClearAlerts
    \/ SetCooldown
    \/ SetThreshold
    \/ SetMaxKept
    \/ SetCapture
    \/ Tick

SpecApp == InitApp /\ [][NextApp]_vars

---------------------------------------------------------------------------
(* Properties of compute_scalp_signal (specification Spec)                 *)

Done == pc = "done"
CfgOf == Cfg(PRESETS, inp.g.mode)
Levels(r) == <<r.entry, r.stop, r.target_1r, r.target_2r>>
NoLevels == <<None, None, None, None>>
AllLevels(r) == \A k \in 1..4 : Levels(r)[k] # None
BestRaw == Max2(loc.long_points, loc.short_points)
ProTriggerReason == <<"Pro mode: no liquidity sweep / OB retest trigger">>
AnyTrigger ==
    bull_sweep(inp) \/ bear_sweep(inp) \/ bull_ob_retest(inp) \/ bear_ob_retest(inp)
\* every requirement the preset enables has its event detected (either side)
RequiredEventsDetected ==
    /\ CfgOf.require_vwap_event = 1 => (vwap_long(inp) \/ vwap_short(inp))
    /\ CfgOf.require_rsi_event = 1 => (rsi_snap(inp) \/ rsi_downshift(inp))
    /\ CfgOf.require_macd_turn = 1 => (macd_turn_up(inp) \/ macd_turn_down(inp))
    /\ CfgOf.require_volume = 1 => vol_ok(inp, CfgOf)

\* C1: every result returned, on every return path, has setup_score in
\* [0,100].  (The NEUTRAL returns report max(long_points, short_points)
\* unclamped, and pro mode can raise a side to 150.)
C1_ScoreInRange == Done => (res.setup_score >= 0 /\ res.setup_score <= 100)

C3_AsStated ==
    (Done /\ inp.g.nbars < 60) =>
        /\ res.bias = "NEUTRAL"
        /\ res.setup_score = 0
        /\ res.reason = <<"insufficient data">>
        /\ Levels(res) = NoLevels

\* C3 amended: fewer than 60 bars gives NEUTRAL, score 0, the reason
\* "Not enough data" and no levels (nor last_price), whatever the other
\* arguments and series are.
C3_NotEnoughData ==
    (Done /\ inp.g.nbars < 60) =>
        /\ res.bias = "NEUTRAL"
        /\ res.setup_score = 0
        /\ res.reason = <<"Not enough data">>
        /\ Levels(res) = NoLevels
        /\ res.last_price = None

\* 59 bars with every long event present, pro mode on, an allowed session
C3_Witness ==
    /\ Done
    /\ inp.g.nbars = 59
    /\ inp.b = LongSetup
    /\ inp.p = ProBull
    /\ inp.g.pro_mode
    /\ inp.g.session = "OPENING" /\ inp.g.allow_opening
    /\ res.bias = "NEUTRAL"

\* the sessions the allow flags disable, stated from the flags
SessionDisabled ==
    \/ (inp.g.session = "OPENING" /\ ~inp.g.allow_opening)
    \/ (inp.g.session = "MIDDAY" /\ ~inp.g.allow_midday)
    \/ (inp.g.session = "POWER" /\ ~inp.g.allow_power)
    \/ inp.g.session = "OFF"

\* C4: with at least 60 bars, a session whose allow flag is false, or the
\* session OFF under any flags, gives NEUTRAL with a time-of-day reason, no
\* levels and last_price = the last close; nothing of the events or of the
\* scoring reaches the result (score 0, empty extras, scoring not run).
C4_SessionFilter ==
    (Done /\ inp.g.nbars >= 60 /\ SessionDisabled) =>
        /\ res = SignalResult("NEUTRAL", 0,
                              <<"Filtered by time-of-day", inp.g.session>>,
                              None, None, None, None, Some(inp.g.close),
                              inp.g.session, {})
        /\ ~loc.scored

\* session OFF with all three flags true, over a complete long setup
C4_Witness ==
    /\ Done
    /\ inp.g.nbars >= 60
    /\ inp.g.session = "OFF"
    /\ inp.g.allow_opening /\ inp.g.allow_midday /\ inp.g.allow_power
    /\ inp.b = LongSetup
    /\ res.reason[1] = "Filtered by time-of-day"

C6_AsStated ==
    (Done /\ PastGates(inp) /\ inp.g.pro_mode /\ ~AnyTrigger
          /\ BestRaw >= CfgOf.min_actionable_score) =>
        /\ res.bias = "NEUTRAL"
        /\ res.reason = ProTriggerReason

\* C6 amended: in pro mode with none of the four triggers detected the result
\* is NEUTRAL, also when a side is at or above min_actionable_score; that
\* NEUTRAL carries the pro-mode trigger reason exactly when every enabled
\* hard requirement's event was detected (otherwise the reason of the first
\* failing hard requirement).  With pro_mode false no result carries the
\* pro-mode trigger reason and a winning side is returned without triggers.
C6_ProTrigger ==
    (Done /\ PastGates(inp)) =>
        /\ (inp.g.pro_mode /\ ~AnyTrigger) =>
            /\ res.bias = "NEUTRAL"
            /\ (res.reason = ProTriggerReason) <=> RequiredEventsDetected
        /\ ~inp.g.pro_mode =>
            /\ res.reason # ProTriggerReason
            /\ (RequiredEventsDetected
                  /\ BestRaw >= CfgOf.min_actionable_score
                  /\ loc.long_points # loc.short_points)
                => res.bias \in {"LONG", "SHORT"}

\* pro mode, requirements met, a side at or above the threshold, no trigger
C6_Witness ==
    /\ Done
    /\ PastGates(inp)
    /\ inp.g.pro_mode
    /\ ~AnyTrigger
    /\ RequiredEventsDetected
    /\ BestRaw >= CfgOf.min_actionable_score
    /\ res.bias = "NEUTRAL"
    /\ res.reason = ProTriggerReason

\* C7: once the sufficiency, session, hard-requirement and pro-trigger gates
\* have passed, the result is LONG exactly when long_points >= min and
\* long_points > short_points, SHORT exactly when short_points >= min and
\* short_points > long_points, NEUTRAL otherwise; equal totals give NEUTRAL.
C7_Decision ==
    (Done /\ PastGates(inp) /\ RequiredEventsDetected
          /\ (inp.g.pro_mode => AnyTrigger)) =>
        LET lp == loc.long_points
            sp == loc.short_points
            m == CfgOf.min_actionable_score
        IN  /\ loc.scored
            /\ (res.bias = "LONG") <=> (lp >= m /\ lp > sp)
            /\ (res.bias = "SHORT") <=> (sp >= m /\ sp > lp)
            /\ (res.bias = "NEUTRAL") <=>
                   ~(lp >= m /\ lp > sp) /\ ~(sp >= m /\ sp > lp)
            /\ lp = sp => res.bias = "NEUTRAL"

\* both sides at the same total, at or above the threshold
C7_Witness ==
    /\ Done
    /\ PastGates(inp) /\ RequiredEventsDetected
    /\ inp.g.pro_mode => AnyTrigger
    /\ loc.long_points = loc.short_points
    /\ loc.long_points >= CfgOf.min_actionable_score
    /\ res.bias = "NEUTRAL"

---------------------------------------------------------------------------
(* Properties of repeated calls (specification SpecCalls)                  *)

---------------------------------------------------------------------------
(* The points table (specification Spec)                                   *)

Pts(cond, n) == IF cond THEN n ELSE 0

BasicLongTable(i, cfg) ==
    Pts(was_below_vwap(i) /\ reclaim_vwap(i), 35)
    + Pts(rsi_snap(i) /\ i.b.rsi14 < 60, 20)
    + Pts(macd_turn_up(i), 20)
    + Pts(vol_ok(i, cfg), 15)
    + Pts(higher_low(i), 10)

BasicShortTable(i, cfg) ==
    Pts(was_above_vwap(i) /\ reject_vwap(i), 35)
    + Pts(rsi_downshift(i) /\ i.b.rsi14 > 40, 20)
    + Pts(macd_turn_down(i), 20)
    + Pts(vol_ok(i, cfg), 15)
    + Pts(lower_high(i), 10)

ProLongTable(i) ==
    Pts(bull_sweep(i), 20) + Pts(bull_ob_retest(i), 15)
    + Pts(i.p.bull_fvg # None, 10) + Pts(displacement(i), 5)

ProShortTable(i) ==
    Pts(bear_sweep(i), 20) + Pts(bear_ob_retest(i), 15)
    + Pts(i.p.bear_fvg # None, 10) + Pts(displacement(i), 5)

LongPenalised(i) == ~trend_long_ok(i) /\ ~(was_below_vwap(i) /\ reclaim_vwap(i))
ShortPenalised(i) == ~trend_short_ok(i) /\ ~(was_above_vwap(i) /\ reject_vwap(i))

TableTotal(basic, pro, pro_mode, penalised) ==
    IF ~pro_mode THEN basic
    ELSE IF penalised THEN Max2(0, basic + pro - 15)
    ELSE basic + pro

\* C12: the raw long and short totals equal the weighted table applied to the
\* detected events: VWAP event 35, RSI-fast event 20 when the slow RSI is
\* < 60 (long) or > 40 (short), MACD turn 20, volume 15 on both sides,
\* higher-low / lower-high 10; in pro mode also sweep 20, order-block retest
\* 15, FVG 10, displacement 5 on both sides, then 15 off, floored at 0, on a
\* side without trend alignment and without its VWAP event; without pro mode
\* the pro diagnostics change neither total.
C12_PointsTable ==
    (Done /\ loc.scored) =>
        /\ loc.long_points =
               TableTotal(BasicLongTable(inp, CfgOf), ProLongTable(inp),
                          inp.g.pro_mode, LongPenalised(inp))
        /\ loc.short_points =
               TableTotal(BasicShortTable(inp, CfgOf), ProShortTable(inp),
                          inp.g.pro_mode, ShortPenalised(inp))

\* a pro-mode call where the floor of the penalty acted on the long side
\* while the short side kept its points unpenalised
C12_Witness ==
    /\ Done
    /\ loc.scored
    /\ inp.g.pro_mode
    /\ LongPenalised(inp)
    /\ BasicLongTable(inp, CfgOf) + ProLongTable(inp) \in 1..14
    /\ loc.long_points = 0
    /\ ~ShortPenalised(inp)
    /\ loc.short_points > 0
    /\ loc.short_points = BasicShortTable(inp, CfgOf) + ProShortTable(inp)

---------------------------------------------------------------------------
(* The levels of a directional result (specification Spec)                 *)

\* ATR14 at the last bar, 0 when it is not available
Atr14OrZero == IF inp.p.atr14 = NaN THEN 0 ELSE Val(inp.p.atr14)

\* x = min(a, b10 / 10) and x = max(a, b10 / 10), without dividing
IsMinOf(x, a, b10) == (x = a /\ 10 * a <= b10) \/ (10 * x = b10 /\ b10 <= 10 * a)
IsMaxOf(x, a, b10) == (x = a /\ 10 * a >= b10) \/ (10 * x = b10 /\ b10 >= 10 * a)

---------------------------------------------------------------------------
(* Required events and the side of the result (specification Spec)         *)

Required(flag) == CfgOf[flag] = 1

\* C16: a LONG result carries every event its preset requires on the long
\* side (VWAP reclaim, RSI-fast snapback, MACD histogram turning up), a SHORT
\* result on the short side (VWAP rejection, RSI-fast downshift, MACD
\* histogram turning down).
C16_RequiredEventsOnSide ==
    Done =>
        /\ res.bias = "LONG" =>
            /\ Required("require_vwap_event") =>
                   (was_below_vwap(inp) /\ reclaim_vwap(inp))
            /\ Required("require_rsi_event") => rsi_snap(inp)
            /\ Required("require_macd_turn") => macd_turn_up(inp)
        /\ res.bias = "SHORT" =>
            /\ Required("require_vwap_event") =>
                   (was_above_vwap(inp) /\ reject_vwap(inp))
            /\ Required("require_rsi_event") => rsi_downshift(inp)
            /\ Required("require_macd_turn") => macd_turn_down(inp)

---------------------------------------------------------------------------
(* Properties of the swing detectors (specification SpecSwing)             *)

\* C9: for any series and any left, right >= 0, no position with index < left
\* or index >= len - right is ever flagged, a flagged position holds the
\* minimum (for highs: the maximum) of the window [position - left,
\* position + right], and a series shorter than left + right + 1 has no flag.
C9_SwingFlags ==
    sw.pc \in {"loop", "done"} =>
        LET n == Len(sw.s)
        IN  /\ \A k \in 1..n :
                sw.flags[k] =>
                    /\ k - 1 >= sw.left
                    /\ k - 1 < n - sw.right
                    /\ \A j \in (k - sw.left)..(k + sw.right) :
                        /\ j \in 1..n
                        /\ sw.kind = "low" => sw.s[k] <= sw.s[j]
                        /\ sw.kind = "high" => sw.s[k] >= sw.s[j]
            /\ n < sw.left + sw.right + 1 => \A k \in 1..n : ~sw.flags[k]

\* a finished scan with context on both sides that flagged one interior
\* position and left another interior position unflagged
C9_Witness ==
    /\ sw.pc = "done"
    /\ sw.left > 0 /\ sw.right > 0
    /\ \E k, j \in 1..Len(sw.s) :
        /\ sw.flags[k]
        /\ ~sw.flags[j]
        /\ j - 1 >= sw.left /\ j - 1 < Len(sw.s) - sw.right

---------------------------------------------------------------------------
(* Properties of find_order_block (specification SpecOB)                   *)

OBDone == ob.pc = "done"

\* the opposite-coloured bars the scan can anchor a zone at (0-based
\* positions in the caller's frame), computed from the arguments alone
OBScanned ==
    LET n == Len(ob.df)
        m == Min2(ob.lookback, n)
    IN  IF n < MIN_OB_BARS THEN {}
        ELSE {c \in (n - m)..(n - 4) :
                IF ob.side = "bull" THEN ob.df[c + 1].close < ob.df[c + 1].open
                ELSE ob.df[c + 1].close > ob.df[c + 1].open}

\* the ATR the caller supplied for bar c
SuppliedAtr(c) == ob.atr[c + 1]

\* the ATR in force at bar c: the supplied value unless it is NaN, else the
\* latest earlier value inside the lookback window that is not NaN
AtrInForce(c) ==
    LET first == Len(ob.df) - Min2(ob.lookback, Len(ob.df))
        known == {q \in first..c : ob.atr[q + 1].k # "nan"}
    IN  IF known = {} THEN FNan
        ELSE ob.atr[(CHOOSE q \in known : \A r \in known : r <= q) + 1]

OBGood(x) == x.k = "num" /\ x.v # 0

\* C10 as stated, on the ATR value of the candidate bar itself
C10_AsStated ==
    OBDone =>
        /\ ob.result # NoZone => OBGood(SuppliedAtr(Val(ob.result.ts)))
        /\ (\A c \in OBScanned : ~OBGood(SuppliedAtr(c))) => ob.result = NoZone

\* C10: find_order_block never returns a zone anchored at a candidate bar
\* whose ATR in force (its own value, or when that is NaN the last earlier
\* non-NaN value inside the lookback window) is non-finite or zero; when every
\* opposite-coloured candidate has such an ATR the result is (None, None,
\* None); a returned zone has zone_low <= zone_high.
C10_OrderBlockAtr ==
    OBDone =>
        /\ ob.result # NoZone =>
            /\ Val(ob.result.ts) \in OBScanned
            /\ OBGood(AtrInForce(Val(ob.result.ts)))
            /\ Val(ob.result.zone_low) <= Val(ob.result.zone_high)
        /\ (\A c \in OBScanned : ~OBGood(AtrInForce(c))) => ob.result = NoZone

\* a zone was returned although a more recent candidate closed beyond by a
\* follower was passed over for its zero or non-finite ATR
C10_Witness ==
    /\ OBDone
    /\ ob.result # NoZone
    /\ \E c \in OBScanned :
        /\ c > Val(ob.result.ts)
        /\ ~OBGood(AtrInForce(c))
        /\ \E j \in (c + 1)..(c + 3) :
            IF ob.side = "bull" THEN ob.df[j + 1].close > ob.df[c + 1].high
            ELSE ob.df[j + 1].close < ob.df[c + 1].low

---------------------------------------------------------------------------
(* Properties of vwap (specification SpecVwap)                             *)

\* the exact cumulative volume, lowest low and highest high of rows 1..k
VolumeUpTo(k) ==
    LET RECURSIVE Sum(_)
        Sum(j) == IF j = 0 THEN 0 ELSE Sum(j - 1) + vw.bars[j].volume
    IN  Sum(k)
LowestUpTo(k) ==
    CHOOSE m \in {vw.bars[j].low : j \in 1..k} : \A j \in 1..k : m <= vw.bars[j].low
HighestUpTo(k) ==
    CHOOSE m \in {vw.bars[j].high : j \in 1..k} : \A j \in 1..k : m >= vw.bars[j].high

\* C11 as stated: an exact enclosure by the lows and highs seen so far
C11_AsStated ==
    vw.pc \in {"loop", "done"} =>
        \A k \in 1..Len(vw.out) :
            IF VolumeUpTo(k) = 0 THEN vw.out[k] = NaN
            ELSE /\ vw.out[k] # NaN
                 /\ LowestUpTo(k) <= Val(vw.out[k])
                 /\ Val(vw.out[k]) <= HighestUpTo(k)

\* the number of roundings behind row k: 4 per typical price and product,
\* k - 1 in each cumulative sum, 1 in the quotient
Roundings(k) == 2 * k + 3

\* C11: for non-negative volumes and low <= close <= high on every bar, vwap
\* at a bar is undefined when the cumulative volume up to that bar is zero,
\* and otherwise lies between the minimum low and the maximum high of the
\* bars so far up to the rounding of the float arithmetic: with N roundings
\* of unit roundoff u = 2^-PREC behind the value, within the relative error
\* N*u / (1 - N*u) of that interval.
C11_VwapEnclosure ==
    vw.pc \in {"loop", "done"} =>
        \A k \in 1..Len(vw.out) :
            IF VolumeUpTo(k) = 0 THEN vw.out[k] = NaN
            ELSE /\ vw.out[k] # NaN
                 /\ Val(vw.out[k]) * (2 ^ PREC - Roundings(k))
                        >= LowestUpTo(k) * (2 ^ PREC - 2 * Roundings(k))
                 /\ Val(vw.out[k]) * (2 ^ PREC - Roundings(k))
                        <= HighestUpTo(k) * (2 ^ PREC)

\* a finished series, undefined on a first bar without volume and defined,
\* strictly inside the bar's range, on the traded bar after it
C11_Witness ==
    /\ vw.pc = "done"
    /\ Len(vw.out) = 2
    /\ vw.bars[1].volume = 0
    /\ vw.out[1] = NaN
    /\ vw.out[2] # NaN
    /\ vw.bars[2].low < Val(vw.out[2])
    /\ Val(vw.out[2]) < vw.bars[2].high

\* bar c qualifies as the code tests it: an ATR in force that is finite and
\* not zero, and among the three bars after it a close beyond its extreme
\* that lies more than that ATR from its close
OBQualifies(c) ==
    /\ OBGood(AtrInForce(c))
    /\ \E j \in (c + 1)..(c + 3) :
        IF ob.side = "bull"
        THEN /\ ob.df[j + 1].close > ob.df[c + 1].high
             /\ ob.df[j + 1].close - ob.df[c + 1].close > AtrInForce(c).v
        ELSE /\ ob.df[j + 1].close < ob.df[c + 1].low
             /\ ob.df[c + 1].close - ob.df[j + 1].close > AtrInForce(c).v

\* the zone of bar c: low to open of a down candle, open to high of an up one
OBZoneOf(c) ==
    LET bar == ob.df[c + 1]
        a == IF ob.side = "bull" THEN bar.low ELSE bar.high
    IN  [zone_low |-> Some(Min2(a, bar.open)), zone_high |-> Some(Max2(a, bar.open)),
         ts |-> Some(c)]

OBExpected(qualifying) ==
    IF qualifying = {} THEN NoZone
    ELSE OBZoneOf(CHOOSE c \in qualifying : \A d \in qualifying : d <= c)

\* the candidates and the test as C14 words them: any opposite-coloured bar
\* of the window, a close among the next 1 to 3 bars that lies more than the
\* ATR beyond the bar's extreme
OBStatedCandidates ==
    LET n == Len(ob.df)
    IN  {c \in (n - Min2(ob.lookback, n))..(n - 1) :
            IF ob.side = "bull" THEN ob.df[c + 1].close < ob.df[c + 1].open
            ELSE ob.df[c + 1].close > ob.df[c + 1].open}

OBStatedQualifies(c) ==
    /\ OBGood(AtrInForce(c))
    /\ \E j \in (c + 1)..Min2(c + 3, Len(ob.df) - 1) :
        IF ob.side = "bull"
        THEN ob.df[j + 1].close - ob.df[c + 1].high > AtrInForce(c).v
        ELSE ob.df[c + 1].low - ob.df[j + 1].close > AtrInForce(c).v

\* C14 as stated
C14_AsStated ==
    OBDone => ob.result = OBExpected({c \in OBStatedCandidates : OBStatedQualifies(c)})

\* C14: given at least 10 bars, find_order_block, restricted to the last
\* `lookback` bars, returns the zone of the most recent opposite-coloured
\* candle that has three bars after it and a finite non-zero ATR in force,
\* and for which at some bar among those three the close lies beyond the
\* candle's extreme (its high for bull, its low for bear) and more than 1.0
\* times that ATR away from the candle's close; it returns no zone when no
\* such candle exists or when there are fewer than 10 bars.
C14_OrderBlock ==
    OBDone => ob.result = OBExpected({c \in OBScanned : OBQualifies(c)})

\* the zone returned is that of the later of two qualifying candles, and the
\* close that displaced it lies within one ATR of its extreme
C14_Witness ==
    /\ OBDone
    /\ ob.result # NoZone
    /\ \E c \in OBScanned : c < Val(ob.result.ts) /\ OBQualifies(c)
    /\ ~OBStatedQualifies(Val(ob.result.ts))

---------------------------------------------------------------------------
(* Properties of the in-app alerts (specification SpecApp)                 *)

====
